---- MODULE Spec2Model ----
(***************************************************************************)
(* MetaBalance: the cart store (utils/cartStore, found at the end of       *)
(* pages/App.tsx), the App component's single-item scoring and add-to-cart *)
(* flows, and the NutritionForm validation.                                *)
(*                                                                         *)
(* JavaScript values are tagged records so that null, numbers, NaN and     *)
(* text can be told apart:  NULL, Num(n), NAN, Str(s).                     *)
(* JavaScript numbers are IEEE doubles; they are modelled as integers      *)
(* rounded (ties to even) to MantBits significant bits after every         *)
(* addition and multiplication, a scaled-down double.                      *)
(***************************************************************************)
EXTENDS Integers, Sequences, FiniteSets, TLC

\* ------------------------------------------------------------------ bounds
MaxItems == 3      \* longest cart explored
MaxIssued == 3     \* cart scoring requests issued in one behaviour
MaxClock == 1      \* Date.now() takes the values 0..MaxClock
MantBits == 3      \* significant bits kept by the scaled-down double
AggMaxLen == 3     \* longest item list handed to the aggregation alone
MaxSubmits == 1    \* form submissions accepted in one behaviour of the page
MaxBalIssued == 2  \* balancing requests issued in one behaviour of the page
MaxAnimations == 2 \* gauge animations running at once
MaxFrames == 6     \* animation frames in one behaviour of the gauge
ZoneMargin == 100  \* scores classified reach this far (in hundredths) outside [0, 50]

\* -------------------------------------------------------------- JS values
NULL == [kind |-> "null"]
NAN == [kind |-> "nan"]
Num(n) == [kind |-> "num", n |-> n]
Str(s) == [kind |-> "str", s |-> s]

Fields == {"protein", "fat", "total_carbs", "fiber", "sugar"}

\* anchorOptions[*].value
anchorOptions == {"protein", "fat", "fiber", "sugar", "TotalCarbs"}

\* ------------------------------------------------- scaled-down IEEE double
RECURSIVE Pow2(_)
Pow2(n) == IF n = 0 THEN 1 ELSE 2 * Pow2(n - 1)

Abs(n) == IF n < 0 THEN -n ELSE n

\* How many low bits of the magnitude m do not fit in the mantissa.
RECURSIVE DropBits(_)
DropBits(m) == IF m < Pow2(MantBits) THEN 0 ELSE 1 + DropBits(m \div 2)

\* Round to nearest representable value, ties to the even mantissa.
FRound(n) ==
  LET m == Abs(n)
      u == Pow2(DropBits(m))
      q == m \div u
      r == m % u
      up == (2 * r > u) \/ (2 * r = u /\ q % 2 = 1)
      mag == (IF up THEN q + 1 ELSE q) * u
  IN IF n < 0 THEN -mag ELSE mag

FAdd(a, b) == FRound(a + b)
FMul(a, b) == FRound(a * b)

\* ---------------------------------------------------------------- state
VARIABLES
  items,         \* cart store: CartItem[]
  cartTotals,    \* cart store: CartTotals | null
  anchorKey,     \* cart store: the cart anchor
  error,         \* cart store: string | null
  cartInflight,  \* calculateTotals calls suspended at `await brain...`
  issued,        \* number of cart scoring requests sent so far
  now,           \* the value Date.now() returns
  op,            \* the operation that produced this state
  aggList,       \* aggregation alone: the item list
  aggOut,        \* aggregation alone: the last result and the list it was computed from
  formData,             \* NutritionForm: the text in the form's fields
  ocrResultData,        \* App: the draft item (OcrData | null), the form's initialData
  isSubmittingItem,     \* App
  isCalculatingItem,    \* App
  isLookingUp,          \* App
  isProcessingOcr,      \* App
  individualItemScore,  \* App: number | null
  calculationItemError, \* App: string | null
  submissionError,      \* App: string | null
  lookupError,          \* App: string | null
  ocrError,             \* App: string | null
  appTasks,             \* App: async handlers suspended at an await
  settledScore,         \* the last single-item score a scoring call settled with
  singleItemAnchorKey,         \* App: the anchor of the single-item graph
  individualBalancedMacros,    \* App: BalancedMacros | null
  isFetchingIndividualBalance, \* App
  balInflight,                 \* balancing requests suspended at `await brain...`
  balIssued,                   \* number of balancing requests sent so far
  zoneScore,        \* the score prop handed to the two zone classifiers
  gaugeZone,        \* CastleVerdeIndexGauge: currentZone
  displayZone,      \* CastleVerdeIndexDisplay: zone
  gaugeScore,       \* CastleVerdeIndexGauge: the score prop
  animatedScore,    \* CastleVerdeIndexGauge: number | null
  isInitialRender,  \* CastleVerdeIndexGauge
  rafQueue,         \* callbacks passed to requestAnimationFrame, in request order
  perfNow           \* performance.now(), in milliseconds

cartVars == <<items, cartTotals, anchorKey, error, cartInflight, issued, now>>
aggVars == <<aggList, aggOut>>
appVars == <<formData, ocrResultData, isSubmittingItem, isCalculatingItem, isLookingUp,
             isProcessingOcr, individualItemScore, calculationItemError,
             submissionError, lookupError, ocrError, appTasks, settledScore,
             singleItemAnchorKey, individualBalancedMacros,
             isFetchingIndividualBalance, balInflight, balIssued>>
balVars == <<individualBalancedMacros, isFetchingIndividualBalance, balInflight, balIssued>>
zoneVars == <<zoneScore, gaugeZone, displayZone>>
gaugeVars == <<gaugeScore, animatedScore, isInitialRender, rafQueue, perfNow>>
viewVars == <<zoneVars, gaugeVars>>
vars == <<cartVars, op, aggVars, appVars, viewVars>>

\* name and arguments of the operation, and the cart's length before it
Op(name, arg, q) == [name |-> name, arg |-> arg, q |-> q, len |-> Len(items)]

\* ---------------------------------------------------------- cart store
ZeroMacros == [f \in Fields |-> 0]

\* `x || d` on a number or a missing value: 0, NaN, null and undefined are falsy.
OrElse(v, d) == IF v.kind = "num" /\ v.n # 0 THEN v.n ELSE d

\* Mutant: `=` where the callback has `+=`.
ReduceStepAssigns(acc, item) ==
  LET quantity == OrElse(item.quantity, 1)
  IN [f \in Fields |-> FMul(OrElse(Num(item.macros[f]), 0), quantity)]

\* One step of the reduce callback: acc.f += (item.macros?.f || 0) * quantity.
ReduceStep(acc, item) ==
  LET quantity == OrElse(item.quantity, 1)
  IN [f \in Fields |-> FAdd(acc[f], FMul(OrElse(Num(item.macros[f]), 0), quantity))]

\* items.reduce(callback, {protein: 0, fat: 0, total_carbs: 0, fiber: 0, sugar: 0})
RECURSIVE Reduce(_, _)
Reduce(its, acc) ==
  IF its = <<>> THEN acc ELSE Reduce(Tail(its), ReduceStep(acc, Head(its)))

aggregated(its) == Reduce(its, ZeroMacros)

\* The body of calculateTotals up to its `await`: the error is cleared, an
\* empty cart clears cartTotals and returns, a non-empty cart sends a request.
calculateTotals(its, anchor) ==
  /\ error' = NULL
  /\ IF Len(its) = 0
       THEN /\ cartTotals' = NULL
            /\ UNCHANGED <<cartInflight, issued>>
       ELSE /\ issued < MaxIssued
            /\ issued' = issued + 1
            /\ cartInflight' = cartInflight \cup
                 {[seq |-> issued + 1,
                   aggregated_input_data |-> aggregated(its),
                   anchor_id |-> anchor,
                   itemCount |-> Len(its)]}
            /\ UNCHANGED cartTotals

\* addItem: the new item is itemData plus id: Date.now().toString().
NewItem(itemData) ==
  [id |-> now, name |-> itemData.name, macros |-> itemData.macros,
   quantity |-> itemData.quantity]

addItem(itemData) ==
  /\ Len(items) < MaxItems
  /\ items' = Append(items, NewItem(itemData))
  /\ calculateTotals(items', anchorKey)
  /\ UNCHANGED <<anchorKey, now>>

\* Mutant: `===` where the filter has `!==`.
FilterKeepsMatch(its, itemId) == SelectSeq(its, LAMBDA it : it.id = itemId)

\* items.filter((item) => item.id !== itemId)
RECURSIVE Filter(_, _)
Filter(its, itemId) ==
  IF its = <<>> THEN <<>>
  ELSE IF Head(its).id # itemId
         THEN <<Head(its)>> \o Filter(Tail(its), itemId)
         ELSE Filter(Tail(its), itemId)

removeItem(itemId) ==
  /\ items' = Filter(items, itemId)
  /\ IF Len(items') > 0
       THEN calculateTotals(items', anchorKey)
       ELSE /\ cartTotals' = NULL
            /\ UNCHANGED <<error, cartInflight, issued>>
  /\ op' = Op("removeItem", itemId, 0)
  /\ UNCHANGED <<anchorKey, now>>

\* Mutant: the quantity stored unclamped.
MathMax0NoClamp(quantity) == quantity

\* Math.max(0, quantity)
MathMax0(quantity) == IF quantity > 0 THEN quantity ELSE 0

\* items.map(item => item.id === itemId ? {...item, quantity: ...} : item)
MapQuantity(its, itemId, quantity) ==
  [i \in 1..Len(its) |->
     IF its[i].id = itemId
       THEN [its[i] EXCEPT !.quantity = Num(MathMax0(quantity))]
       ELSE its[i]]

updateItemQuantity(itemId, quantity) ==
  /\ items' = MapQuantity(items, itemId, quantity)
  /\ calculateTotals(items', anchorKey)
  /\ op' = Op("updateItemQuantity", itemId, quantity)
  /\ UNCHANGED <<anchorKey, now>>

setAnchorKey(key) ==
  /\ anchorKey' = key
  /\ calculateTotals(items, anchorKey')
  /\ op' = Op("setAnchorKey", 0, 0)
  /\ UNCHANGED <<items, now>>

clearCart ==
  /\ items' = <<>>
  /\ cartTotals' = NULL
  /\ op' = Op("clearCart", 0, 0)
  /\ UNCHANGED <<anchorKey, error, cartInflight, issued, now>>

\* The remote scorer answers request r: the rest of the try block runs.
\* totalsWithCount = {...result, itemCount: items.length}; items is the list
\* read before the await.
calculateTotalsResolved(r, spike) ==
  /\ r \in cartInflight
  /\ cartInflight' = cartInflight \ {r}
  /\ cartTotals' = [kind |-> "totals",
                    seq |-> r.seq,
                    input_data |-> r.aggregated_input_data,
                    anchor_id |-> r.anchor_id,
                    predicted_spike |-> spike,
                    itemCount |-> r.itemCount]
  /\ op' = Op("resolved", r.seq, 0)
  /\ UNCHANGED <<items, anchorKey, error, issued, now>>

\* error instanceof Error ? error.message : "Unknown error calculating totals"
ErrorMessage(thrown) ==
  IF thrown.kind = "Error" THEN Str(thrown.message)
  ELSE Str("Unknown error calculating totals")

\* Mutant: the catch block also wipes the totals.
calculateTotalsRejectedWipes(r, thrown) ==
  /\ r \in cartInflight
  /\ cartInflight' = cartInflight \ {r}
  /\ error' = ErrorMessage(thrown)
  /\ cartTotals' = NULL
  /\ op' = Op("rejected", r.seq, 0)
  /\ UNCHANGED <<items, anchorKey, issued, now>>

\* The remote call of request r throws: the catch block runs.
calculateTotalsRejected(r, thrown) ==
  /\ r \in cartInflight
  /\ cartInflight' = cartInflight \ {r}
  /\ error' = ErrorMessage(thrown)
  /\ op' = Op("rejected", r.seq, 0)
  /\ UNCHANGED <<items, cartTotals, anchorKey, issued, now>>

\* Time passes.
Tick ==
  /\ now < MaxClock
  /\ now' = now + 1
  /\ op' = Op("tick", 0, 0)
  /\ UNCHANGED <<items, cartTotals, anchorKey, error, cartInflight, issued>>

\* ------------------------------------------------- NutritionForm and App
\* The form's five numeric fields, and the cart field each one feeds.
FormKeys == {"protein", "fat", "totalCarbs", "fiber", "sugar"}
FormKey(f) == IF f = "total_carbs" THEN "totalCarbs" ELSE f

\* Decimal numerals the model can read and print.
NumeralRange == -9..99

\* Number(v): "" and null give 0, a numeral its value, other text NaN.
Number(v) ==
  CASE v.kind = "num" -> v
    [] v.kind = "null" -> Num(0)
    [] v.kind = "nan" -> NAN
    [] v.kind = "str" ->
         IF v.s = "" THEN Num(0)
         ELSE IF \E n \in NumeralRange : ToString(n) = v.s
                THEN Num(CHOOSE n \in NumeralRange : ToString(n) = v.s)
                ELSE NAN

\* String(v) and v.toString()
String(v) ==
  CASE v.kind = "str" -> v
    [] v.kind = "num" -> Str(ToString(v.n))
    [] v.kind = "nan" -> Str("NaN")
    [] v.kind = "null" -> Str("null")

\* v ?? d
Coalesce(v, d) == IF v.kind = "null" THEN d ELSE v

\* The form state the useEffect on initialData sets.
FormFrom(initialData) ==
  [k \in FormKeys \cup {"itemName"} |->
     IF initialData.kind = "null" THEN Str("")
     ELSE IF k = "itemName"
            THEN (IF initialData.itemName.kind = "null" THEN Str("") ELSE initialData.itemName)
            ELSE String(Coalesce(initialData[k], Str("")))]

\* setOcrResultData(d) followed by the form's effect; setting null over null
\* changes no state, so the effect does not run.
SetOcrResultData(d) ==
  /\ ocrResultData' = d
  /\ formData' = IF d = NULL /\ ocrResultData = NULL THEN formData ELSE FormFrom(d)

\* /^\d*\.?\d*$/.test(value) || value === ''
MatchesDigits(value) ==
  \/ value = ""
  \/ value = "."
  \/ \E n \in 0..99 : ToString(n) = value

\* handleChange on a numeric field: text that fails the pattern is dropped.
handleChange(name, value) ==
  /\ ~isSubmittingItem
  /\ formData' = IF MatchesDigits(value) THEN [formData EXCEPT ![name] = Str(value)]
                 ELSE formData
  /\ formData' # formData
  /\ op' = Op("handleChange", 0, 0)
  /\ UNCHANGED <<cartVars, ocrResultData, isSubmittingItem, isCalculatingItem,
                 isLookingUp, isProcessingOcr, individualItemScore,
                 calculationItemError, submissionError, lookupError, ocrError,
                 appTasks, settledScore>>

\* Mutant: the sign of a field is not checked.
validateFormNoSign(fd) ==
  \A k \in FormKeys : fd[k] # Str("") /\ Number(fd[k]).kind = "num"

\* validateForm: every numeric field is present, a number and not negative.
validateForm(fd) ==
  \A k \in FormKeys :
    /\ fd[k] # Str("")
    /\ Number(fd[k]).kind = "num"
    /\ ~(Number(fd[k]).n < 0)

\* handleSubmit's submittedData
SubmittedData(fd) ==
  [k \in FormKeys \cup {"itemName"} |->
     IF k = "itemName"
       THEN (IF fd.itemName = Str("") THEN Str("Unnamed Item") ELSE fd.itemName)
       ELSE Number(fd[k])]

\* `Number(x) || 0` on a form or response value
NumberOr0(v) == OrElse(Number(v), 0)

\* individualMacros / actualMacrosForApi
IndividualMacros(input) == [f \in Fields |-> NumberOr0(input[FormKey(f)])]

\* Mutant: the serving count is used as returned.
ServingsAsReturned(draft) ==
  IF draft.kind = "null" THEN 1 ELSE Coalesce(draft.servings, Num(1)).n

\* (ocrResultData?.servings ?? 1) > 0 ? (ocrResultData?.servings ?? 1) : 1
Servings(draft) ==
  LET s == IF draft.kind = "null" THEN 1 ELSE Coalesce(draft.servings, Num(1)).n
  IN IF s > 0 THEN s ELSE 1

MultipliedMacros(data, servings) ==
  [f \in Fields |-> FMul(NumberOr0(data[FormKey(f)]), servings)]

\* cartItem = {name, macros}: no quantity
CartItemOf(data, draft) ==
  [name |-> data.itemName.s,
   macros |-> MultipliedMacros(data, Servings(draft)),
   quantity |-> NULL]

\* formDataForOcrState
FormDataForOcrState(data, draft) ==
  [kind |-> "data", itemName |-> data.itemName,
   protein |-> data.protein, fat |-> data.fat, totalCarbs |-> data.totalCarbs,
   fiber |-> data.fiber, sugar |-> data.sugar,
   servings |-> IF draft.kind = "null" THEN Num(1) ELSE Coalesce(draft.servings, Num(1))]

\* calculateIndividualScore up to its await: the gauge state is reset and the
\* request is built with the cart store's anchorKey.
ApiRequestBody(input) ==
  [aggregated_input_data |-> IndividualMacros(input), anchor_id |-> anchorKey]

calculateIndividualScoreStart ==
  /\ isCalculatingItem' = TRUE
  /\ individualItemScore' = NULL
  /\ calculationItemError' = NULL

\* handleSubmit with a valid form: handleAnalyzeAndAddToCart(data) runs up to
\* `await calculateIndividualScore(...)`.
handleAnalyzeAndAddToCart(data) ==
  /\ isSubmittingItem' = TRUE
  /\ submissionError' = NULL
  /\ SetOcrResultData(FormDataForOcrState(data, ocrResultData))
  /\ calculateIndividualScoreStart
  /\ appTasks' = appTasks \cup
       {[fn |-> "handleAnalyzeAndAddToCart",
         cartItem |-> CartItemOf(data, ocrResultData),
         request |-> ApiRequestBody(data)]}
  /\ op' = Op("handleAnalyzeAndAddToCart", 0, 0)
  /\ UNCHANGED <<cartVars, isLookingUp, isProcessingOcr, lookupError, ocrError,
                 settledScore>>

\* The submit button is disabled while submitting or looking up. A valid
\* form is accepted while the cart holds fewer than `limit` items.
handleSubmitWithin(limit) ==
  /\ ~isSubmittingItem /\ ~isLookingUp
  /\ IF validateForm(formData)
       THEN /\ Len(items) < limit
            /\ handleAnalyzeAndAddToCart(SubmittedData(formData))
       ELSE /\ op' = Op("handleSubmit.invalid", 0, 0)
            /\ UNCHANGED <<cartVars, appVars>>

handleSubmit == handleSubmitWithin(MaxSubmits)

\* A thrown value's `err.message || fallback`
MessageOr(thrown, fallback) ==
  IF thrown.message # "" THEN Str(thrown.message) ELSE Str(fallback)

\* The rest of calculateIndividualScore once the scorer has answered.
calculateIndividualScoreResolved(spike) ==
  /\ individualItemScore' = spike
  /\ settledScore' = IF spike = NULL THEN settledScore ELSE spike
  /\ isCalculatingItem' = FALSE
  /\ UNCHANGED calculationItemError

\* The catch and finally blocks of calculateIndividualScore.
calculateIndividualScoreRejected(thrown) ==
  /\ calculationItemError' =
       MessageOr(thrown, "An unexpected error occurred during calculation.")
  /\ individualItemScore' = NULL
  /\ isCalculatingItem' = FALSE
  /\ UNCHANGED settledScore

\* handleAnalyzeAndAddToCart after the await, adding only a scored item
submitSettledAddsOnSuccess(t, ok, spike, thrown) ==
  /\ t \in appTasks /\ t.fn = "handleAnalyzeAndAddToCart"
  /\ appTasks' = appTasks \ {t}
  /\ IF ok THEN calculateIndividualScoreResolved(spike) /\ addItem(t.cartItem)
           ELSE calculateIndividualScoreRejected(thrown) /\ UNCHANGED cartVars
  /\ isSubmittingItem' = FALSE
  /\ op' = Op(IF ok THEN "scoreResolved" ELSE "scoreRejected", now, 0)
  /\ UNCHANGED <<formData, ocrResultData, isLookingUp, isProcessingOcr,
                 submissionError, lookupError, ocrError>>

\* handleAnalyzeAndAddToCart after the await: the item is added whether or
\* not the scoring call failed, then isSubmittingItem is reset.
submitSettled(t, ok, spike, thrown) ==
  /\ t \in appTasks /\ t.fn = "handleAnalyzeAndAddToCart"
  /\ appTasks' = appTasks \ {t}
  /\ IF ok THEN calculateIndividualScoreResolved(spike)
           ELSE calculateIndividualScoreRejected(thrown)
  /\ addItem(t.cartItem)
  /\ isSubmittingItem' = FALSE
  /\ op' = Op(IF ok THEN "scoreResolved" ELSE "scoreRejected", now, 0)
  /\ UNCHANGED <<formData, ocrResultData, isLookingUp, isProcessingOcr,
                 submissionError, lookupError, ocrError>>

\* processCapturedImage up to the fetch of the OCR endpoint.
processCapturedImage ==
  /\ ~isProcessingOcr /\ ~isLookingUp /\ ~isSubmittingItem
  /\ isProcessingOcr' = TRUE
  /\ ocrError' = NULL
  /\ SetOcrResultData(NULL)
  /\ appTasks' = appTasks \cup
       {[fn |-> "processCapturedImage", before |-> ocrResultData]}
  /\ op' = Op("processCapturedImage", 0, 0)
  /\ UNCHANGED <<cartVars, isSubmittingItem, isCalculatingItem, isLookingUp,
                 individualItemScore, calculationItemError, submissionError,
                 lookupError, settledScore>>

\* v?.toString() ?? ''
ToStringOrEmpty(v) == IF v.kind = "null" THEN Str("") ELSE String(v)

\* mappedData
MappedData(ocrData) ==
  [kind |-> "data", itemName |-> Str("Scanned Item"),
   protein |-> ToStringOrEmpty(ocrData.protein),
   fat |-> ToStringOrEmpty(ocrData.total_fat),
   totalCarbs |-> ToStringOrEmpty(ocrData.total_carbohydrate),
   fiber |-> ToStringOrEmpty(ocrData.dietary_fiber),
   sugar |-> ToStringOrEmpty(ocrData.total_sugars),
   servings |-> ocrData.servings]

ocrResolved(t, ocrData) ==
  /\ t \in appTasks /\ t.fn = "processCapturedImage"
  /\ appTasks' = appTasks \ {t}
  /\ SetOcrResultData(MappedData(ocrData))
  /\ isProcessingOcr' = FALSE
  /\ op' = Op("ocrResolved", 0, 0)
  /\ UNCHANGED <<cartVars, isSubmittingItem, isCalculatingItem, isLookingUp,
                 individualItemScore, calculationItemError, submissionError,
                 lookupError, ocrError, settledScore>>

ocrRejected(t, thrown) ==
  /\ t \in appTasks /\ t.fn = "processCapturedImage"
  /\ appTasks' = appTasks \ {t}
  /\ ocrError' =
       MessageOr(thrown, "Failed to process the image due to an unexpected error.")
  /\ isProcessingOcr' = FALSE
  /\ op' = Op("ocrRejected", 0, 0)
  /\ UNCHANGED <<cartVars, formData, ocrResultData, isSubmittingItem,
                 isCalculatingItem, isLookingUp, individualItemScore,
                 calculationItemError, submissionError, lookupError, settledScore>>

\* handleAutoFillRequest(itemName) up to the fetch, for each call in `calls`
\* made by one event handler (the state updates of one handler are batched).
handleAutoFillRequestCalls(itemName, calls) ==
  /\ isLookingUp' = TRUE
  /\ lookupError' = NULL
  /\ SetOcrResultData(NULL)
  /\ individualItemScore' = NULL
  /\ calculationItemError' = NULL
  /\ appTasks' = appTasks \cup
       {[fn |-> "handleAutoFillRequest", itemName |-> itemName,
         before |-> ocrResultData, call |-> c] : c \in calls}
  /\ UNCHANGED <<cartVars, isSubmittingItem, isCalculatingItem, isProcessingOcr,
                 submissionError, ocrError, settledScore>>

\* handleAutoFillClick -> handleAutoFillRequest(itemName) up to the fetch.
handleAutoFillRequest ==
  /\ ~isSubmittingItem /\ ~isLookingUp
  /\ formData.itemName # Str("")
  /\ handleAutoFillRequestCalls(formData.itemName, {0})
  /\ op' = Op("handleAutoFillRequest", 0, 0)

\* recognition.onresult: handleAutoFillRequest(currentTranscript) and, for a
\* transcript that is not blank, handleAutoFillRequest(currentTranscript.trim()).
\* Listening starts from the Voice button, disabled while a flow is busy;
\* transcript and isListening only drive that button and are left out.
onresult(currentTranscript) ==
  /\ ~isProcessingOcr /\ ~isLookingUp /\ ~isSubmittingItem
  /\ currentTranscript # ""
  /\ handleAutoFillRequestCalls(Str(currentTranscript), {1, 2})
  /\ op' = Op("onresult", 0, 0)

\* formDataFromLookup
FormDataFromLookup(itemName, lookupData) ==
  [kind |-> "data", itemName |-> itemName,
   protein |-> ToStringOrEmpty(lookupData.protein),
   fat |-> ToStringOrEmpty(lookupData.fat),
   totalCarbs |-> ToStringOrEmpty(lookupData.total_carbs),
   fiber |-> ToStringOrEmpty(lookupData.fiber),
   sugar |-> ToStringOrEmpty(lookupData.sugar),
   servings |-> Num(1)]

\* The lookup answered: the draft is filled and calculateIndividualScore starts.
lookupResolved(t, lookupData) ==
  /\ t \in appTasks /\ t.fn = "handleAutoFillRequest"
  /\ SetOcrResultData(FormDataFromLookup(t.itemName, lookupData))
  /\ calculateIndividualScoreStart
  /\ appTasks' = (appTasks \ {t}) \cup
       {[fn |-> "handleAutoFillRequest.score", call |-> t.call,
         request |-> ApiRequestBody(FormDataFromLookup(t.itemName, lookupData))]}
  /\ op' = Op("lookupResolved", 0, 0)
  /\ UNCHANGED <<cartVars, isSubmittingItem, isLookingUp, isProcessingOcr,
                 submissionError, lookupError, ocrError, settledScore>>

\* The catch block of handleAutoFillRequest without its finally block
lookupRejectedNoFinally(t, thrown) ==
  /\ t \in appTasks /\ t.fn = "handleAutoFillRequest"
  /\ appTasks' = appTasks \ {t}
  /\ lookupError' = MessageOr(thrown, "An unexpected error occurred during lookup.")
  /\ calculationItemError' = lookupError'
  /\ op' = Op("lookupRejected", 0, 0)
  /\ UNCHANGED <<cartVars, formData, ocrResultData, isSubmittingItem, isLookingUp,
                 isCalculatingItem, isProcessingOcr, individualItemScore,
                 submissionError, ocrError, settledScore>>

\* The catch and finally blocks of handleAutoFillRequest.
lookupRejected(t, thrown) ==
  /\ t \in appTasks /\ t.fn = "handleAutoFillRequest"
  /\ appTasks' = appTasks \ {t}
  /\ lookupError' = MessageOr(thrown, "An unexpected error occurred during lookup.")
  /\ calculationItemError' = lookupError'
  /\ isLookingUp' = FALSE
  /\ op' = Op("lookupRejected", 0, 0)
  /\ UNCHANGED <<cartVars, formData, ocrResultData, isSubmittingItem,
                 isCalculatingItem, isProcessingOcr, individualItemScore,
                 submissionError, ocrError, settledScore>>

\* handleAutoFillRequest after `await calculateIndividualScore(...)`.
lookupScoreSettled(t, ok, spike, thrown) ==
  /\ t \in appTasks /\ t.fn = "handleAutoFillRequest.score"
  /\ appTasks' = appTasks \ {t}
  /\ IF ok THEN calculateIndividualScoreResolved(spike)
           ELSE calculateIndividualScoreRejected(thrown)
  /\ isLookingUp' = FALSE
  /\ op' = Op(IF ok THEN "scoreResolved" ELSE "scoreRejected", 0, 0)
  /\ UNCHANGED <<cartVars, formData, ocrResultData, isSubmittingItem,
                 isProcessingOcr, submissionError, lookupError, ocrError>>

\* mapAnchorKeyToApiValue: "TotalCarbs" becomes "total_carbs", any other key
\* is lower-cased (the other option values are lower case already).
mapAnchorKeyToApiValue(uiAnchorKey) ==
  IF uiAnchorKey = "TotalCarbs" THEN "total_carbs" ELSE uiAnchorKey

\* The dependency list of the balanced-macros effect.
BalanceDeps == <<ocrResultData, individualItemScore, isCalculatingItem, singleItemAnchorKey>>

\* The balanced-macros effect, run after a render in which a dependency
\* changed: with a draft, a score and no scoring call running it clears the
\* balanced values and sends a balancing request; otherwise it clears them.
fetchIndividualBalancedMacros ==
  IF BalanceDeps' = BalanceDeps
    THEN UNCHANGED balVars
    ELSE IF /\ ocrResultData' # NULL
            /\ individualItemScore' # NULL
            /\ ~isCalculatingItem'
            /\ singleItemAnchorKey' # ""
           THEN /\ balIssued < MaxBalIssued
                /\ balIssued' = balIssued + 1
                /\ isFetchingIndividualBalance' = TRUE
                /\ individualBalancedMacros' = NULL
                /\ balInflight' = balInflight \cup
                     {[seq |-> balIssued + 1,
                       aggregated_input_data |-> IndividualMacros(ocrResultData'),
                       anchor_id |-> mapAnchorKeyToApiValue(singleItemAnchorKey')]}
           ELSE /\ individualBalancedMacros' = NULL
                /\ UNCHANGED <<isFetchingIndividualBalance, balInflight, balIssued>>

\* Select onValueChange={setSingleItemAnchorKey}
setSingleItemAnchorKey(k) ==
  /\ k # singleItemAnchorKey
  /\ singleItemAnchorKey' = k
  /\ op' = Op("setSingleItemAnchorKey", 0, 0)
  /\ UNCHANGED <<cartVars, formData, ocrResultData, isSubmittingItem, isCalculatingItem,
                 isLookingUp, isProcessingOcr, individualItemScore,
                 calculationItemError, submissionError, lookupError, ocrError,
                 appTasks, settledScore>>
  /\ fetchIndividualBalancedMacros

\* The rest of the effect once the scorer has answered with status ok:
\* resultData.balanced_macros if present, else null.
balancedResolved(r, balanced_macros) ==
  /\ r \in balInflight
  /\ balInflight' = balInflight \ {r}
  /\ individualBalancedMacros' = balanced_macros
  /\ isFetchingIndividualBalance' = FALSE
  /\ op' = Op("balancedResolved", r.seq, 0)
  /\ UNCHANGED <<cartVars, formData, ocrResultData, isSubmittingItem, isCalculatingItem,
                 isLookingUp, isProcessingOcr, individualItemScore,
                 calculationItemError, submissionError, lookupError, ocrError,
                 appTasks, settledScore, singleItemAnchorKey, balIssued>>

\* The scorer answered with a non-ok status, or the call threw.
balancedRejected(r) ==
  /\ r \in balInflight
  /\ balInflight' = balInflight \ {r}
  /\ individualBalancedMacros' = NULL
  /\ isFetchingIndividualBalance' = FALSE
  /\ op' = Op("balancedRejected", r.seq, 0)
  /\ UNCHANGED <<cartVars, formData, ocrResultData, isSubmittingItem, isCalculatingItem,
                 isLookingUp, isProcessingOcr, individualItemScore,
                 calculationItemError, submissionError, lookupError, ocrError,
                 appTasks, settledScore, singleItemAnchorKey, balIssued>>

BlankForm == FormFrom(NULL)

InitApp ==
  /\ formData = BlankForm
  /\ ocrResultData = NULL
  /\ isSubmittingItem = FALSE
  /\ isCalculatingItem = FALSE
  /\ isLookingUp = FALSE
  /\ isProcessingOcr = FALSE
  /\ individualItemScore = NULL
  /\ calculationItemError = NULL
  /\ submissionError = NULL
  /\ lookupError = NULL
  /\ ocrError = NULL
  /\ appTasks = {}
  /\ settledScore = NULL
  /\ singleItemAnchorKey = "protein"
  /\ individualBalancedMacros = NULL
  /\ isFetchingIndividualBalance = FALSE
  /\ balInflight = {}
  /\ balIssued = 0

\* ------------------------------------------------- the zone classifiers
\* Scores on the gauge and the cart display are numbers in hundredths of a
\* unit: 14.9 is 1490, 50 is 5000.
NotRendered == [kind |-> "none"]
Zone(label) == [kind |-> "zone", label |-> label]

\* zones[*].label and zones[*].range, the same table in both components
zones ==
  <<[label |-> "Low", range |-> <<0, 1490>>],
    [label |-> "Caution", range |-> <<1500, 2490>>],
    [label |-> "Dangerous", range |-> <<2500, 3490>>],
    [label |-> "Red Zone", range |-> <<3500, 5000>>]>>

\* zones.find(({range}) => score >= range[0] && score <= range[1])
RECURSIVE Find(_, _)
Find(zs, n) ==
  IF zs = <<>> THEN NULL
  ELSE IF n >= Head(zs).range[1] /\ n <= Head(zs).range[2]
         THEN Zone(Head(zs).label)
         ELSE Find(Tail(zs), n)

\* CastleVerdeIndexDisplay getZone: null for no score, a negative score and a
\* score no range contains.
getZoneDisplay(score) ==
  IF score = NULL THEN NULL
  ELSE IF score.n < 0 THEN NULL
  ELSE Find(zones, score.n)

\* CastleVerdeIndexGauge getZone: N/A for no score; the zone whose range
\* contains the score; past the last range Red Zone, otherwise N/A.
getZoneGauge(score) ==
  IF score = NULL THEN Zone("N/A")
  ELSE IF Find(zones, score.n) # NULL THEN Find(zones, score.n)
  ELSE IF score.n > zones[Len(zones)].range[2] THEN Zone(zones[Len(zones)].label)
  ELSE Zone("N/A")

InitZoneIdle ==
  /\ zoneScore = NULL
  /\ gaugeZone = NotRendered
  /\ displayZone = NotRendered

\* ------------------------------------------------------ the gauge needle
MAX_SCORE == 5000
MIN_SCORE == 0

MathMin(a, b) == IF a < b THEN a ELSE b
MathMax(a, b) == IF a > b THEN a ELSE b

\* clampedScore: what the needle shows
clampedScore ==
  IF animatedScore = NULL THEN MIN_SCORE
  ELSE MathMax(MIN_SCORE, MathMin(animatedScore.n, MAX_SCORE))

\* acvScore = clampedScore * 0.75, in ten-thousandths (hundredths x 100)
acvScore == clampedScore * 75

\* getZone(score): the zone that colours the read-out is computed from the
\* score prop, not from clampedScore
classifiedScore == gaugeScore
currentZone == getZoneGauge(classifiedScore)

\* The animation one run of the effect sets up: the closure of `animate`.
\* duration = Math.min(Math.abs(diff) * 40, 800) with diff in hundredths.
Animation(score) ==
  LET startValue == IF animatedScore = NULL THEN MIN_SCORE ELSE animatedScore.n
      targetValue == MathMax(MIN_SCORE, MathMin(score.n, MAX_SCORE))
      diff == targetValue - startValue
  IN [startValue |-> startValue, targetValue |-> targetValue, diff |-> diff,
      duration |-> MathMin((Abs(diff) * 40) \div 100, 800),
      startTime |-> perfNow]

\* The effect without its first-render branch: every score is animated
scoreEffectAlwaysAnimates(score) ==
  IF score = NULL
    THEN /\ animatedScore' = NULL
         /\ UNCHANGED <<isInitialRender, rafQueue>>
    ELSE /\ rafQueue' = Append(rafQueue, Animation(score))
         /\ UNCHANGED <<animatedScore, isInitialRender>>

\* The effect on [score]: no score clears the needle, the first score is
\* shown at once, a later score starts an animation. The effect returns no
\* cleanup and cancels nothing.
scoreEffect(score) ==
  IF score = NULL
    THEN /\ animatedScore' = NULL
         /\ UNCHANGED <<isInitialRender, rafQueue>>
    ELSE IF isInitialRender
      THEN /\ animatedScore' = score
           /\ isInitialRender' = FALSE
           /\ UNCHANGED rafQueue
      ELSE /\ rafQueue' = Append(rafQueue, Animation(score))
           /\ UNCHANGED <<animatedScore, isInitialRender>>

\* The parent hands the gauge another score.
setScore(score) ==
  /\ score # gaugeScore
  /\ Len(rafQueue) < MaxAnimations
  /\ gaugeScore' = score
  /\ scoreEffect(score)
  /\ UNCHANGED perfNow

\* animate(currentTime) finished: elapsed >= duration
Finished(a, currentTime) == currentTime - a.startTime >= a.duration

\* (1 - progress)^2 alone, without the complement: it runs from 1 down to 0
easeOutQuadNoComplement(elapsed, duration) ==
  (1000 * (duration - elapsed) * (duration - elapsed)) \div (duration * duration)

\* easeOutQuad = 1 - (1 - progress)^2 with progress = elapsed / duration,
\* in thousandths.
easeOutQuad(elapsed, duration) ==
  (1000 * (2 * elapsed * duration - elapsed * elapsed)) \div (duration * duration)

\* The value animate(currentTime) passes to setAnimatedScore.
Animated(a, currentTime) ==
  LET elapsed == currentTime - a.startTime
  IN IF Finished(a, currentTime) THEN a.targetValue
     ELSE a.startValue + (a.diff * easeOutQuad(elapsed, a.duration)) \div 1000

\* One animation frame: every queued callback runs with the frame's time, in
\* request order; an unfinished animation requests the next frame.
animationFrame(currentTime) ==
  /\ rafQueue # <<>>
  /\ perfNow' = currentTime
  /\ animatedScore' = Num(Animated(rafQueue[Len(rafQueue)], currentTime))
  /\ rafQueue' = SelectSeq(rafQueue, LAMBDA a : ~Finished(a, currentTime))
  /\ UNCHANGED <<gaugeScore, isInitialRender>>

InitGauge ==
  /\ gaugeScore = NULL
  /\ animatedScore = NULL
  /\ isInitialRender = TRUE
  /\ rafQueue = <<>>
  /\ perfNow = 0

\* ------------------------------------------------------------ inputs
\* What handleAnalyzeAndAddToCart passes to addItem: {name, macros}; no quantity.
MacrosA == [protein |-> 1, fat |-> 1, total_carbs |-> 1, fiber |-> 0, sugar |-> 1]
MacrosB == [protein |-> 8, fat |-> 2, total_carbs |-> 4, fiber |-> 1, sugar |-> 0]
ItemChoices == {[name |-> "Unnamed Item", macros |-> MacrosA, quantity |-> NULL]}
QuantityChoices == {-1, 2}
AnchorChoices == {"fat", "TotalCarbs"}
SpikeChoices == {12}
ThrownChoices == {[kind |-> "Error", message |-> "Failed to fetch"],
                  [kind |-> "Response", message |-> ""]}

InitCart ==
  /\ items = <<>>
  /\ cartTotals = NULL
  /\ anchorKey = "protein"
  /\ error = NULL
  /\ cartInflight = {}
  /\ issued = 0
  /\ now = 0

InitAggIdle ==
  /\ aggList = <<>>
  /\ aggOut = NULL

Init ==
  /\ InitCart
  /\ InitAggIdle
  /\ InitApp
  /\ InitZoneIdle
  /\ InitGauge
  /\ op = Op("init", 0, 0)

AddItem ==
  /\ \E d \in ItemChoices : addItem(d)
  /\ op' = Op("addItem", now, 0)
  /\ UNCHANGED <<aggVars, viewVars, appVars>>
RemoveItem == (\E id \in 0..MaxClock : removeItem(id)) /\ UNCHANGED <<aggVars, viewVars, appVars>>
UpdateItemQuantity ==
  (\E id \in 0..MaxClock, q \in QuantityChoices : updateItemQuantity(id, q))
  /\ UNCHANGED <<aggVars, viewVars, appVars>>
SetAnchorKey == (\E k \in AnchorChoices : setAnchorKey(k)) /\ UNCHANGED <<aggVars, viewVars, appVars>>
ClearCart == clearCart /\ UNCHANGED <<aggVars, viewVars, appVars>>
Resolved ==
  (\E r \in cartInflight, s \in SpikeChoices : calculateTotalsResolved(r, s))
  /\ UNCHANGED <<aggVars, viewVars, appVars>>
Rejected ==
  (\E r \in cartInflight, t \in ThrownChoices : calculateTotalsRejected(r, t))
  /\ UNCHANGED <<aggVars, viewVars, appVars>>
ClockTick == Tick /\ UNCHANGED <<aggVars, viewVars, appVars>>

Next ==
  \/ AddItem
  \/ RemoveItem
  \/ UpdateItemQuantity
  \/ SetAnchorKey
  \/ ClearCart
  \/ Resolved
  \/ Rejected
  \/ ClockTick

\* The cart store, driven through its public actions.
Spec == Init /\ [][Next]_vars

\* ------------------------------------------------ the aggregation alone
\* Item lists as the store can hold them: macros as submitted, quantity
\* missing (never updated) or set by updateItemQuantity.
AggItemChoices ==
  {[id |-> 0, name |-> "Unnamed Item", macros |-> m, quantity |-> q] :
     m \in {MacrosA, MacrosB}, q \in {NULL, Num(0), Num(2)}}

AggLists == UNION {[1..n -> AggItemChoices] : n \in 1..AggMaxLen}

InitAgg ==
  /\ InitCart
  /\ InitApp
  /\ InitZoneIdle
  /\ InitGauge
  /\ op = Op("init", 0, 0)
  /\ aggList \in AggLists
  /\ aggOut = NULL

\* The reduce of calculateTotals applied to the list.
AggCompute ==
  /\ aggOut' = [kind |-> "vec", list |-> aggList, v |-> aggregated(aggList)]
  /\ UNCHANGED <<cartVars, op, aggList, appVars, viewVars>>

\* The same items in another order.
AggShuffle ==
  /\ \E p \in Permutations(1..Len(aggList)) :
       /\ aggList' = [i \in 1..Len(aggList) |-> aggList[p[i]]]
       /\ aggList' # aggList
  /\ UNCHANGED <<cartVars, op, aggOut, appVars, viewVars>>

NextAgg == AggCompute \/ AggShuffle

SpecAgg == InitAgg /\ [][NextAgg]_vars

\* ------------------------------------------------ the classifiers alone
\* Scores from ZoneMargin hundredths below 0 to ZoneMargin hundredths above
\* 50, and no score.
ZoneScores == {NULL} \cup {Num(n) : n \in (0 - ZoneMargin)..(5000 + ZoneMargin)}

InitZone ==
  /\ InitCart
  /\ InitAggIdle
  /\ InitApp
  /\ InitGauge
  /\ op = Op("init", 0, 0)
  /\ zoneScore \in ZoneScores
  /\ gaugeZone = NotRendered
  /\ displayZone = NotRendered

\* The gauge renders: currentZone = getZone(score).
RenderGauge ==
  /\ gaugeZone = NotRendered
  /\ gaugeZone' = getZoneGauge(zoneScore)
  /\ UNCHANGED <<cartVars, op, aggVars, appVars, gaugeVars, zoneScore, displayZone>>

\* The cart display renders: zone = getZone(score).
RenderDisplay ==
  /\ displayZone = NotRendered
  /\ displayZone' = getZoneDisplay(zoneScore)
  /\ UNCHANGED <<cartVars, op, aggVars, appVars, gaugeVars, zoneScore, gaugeZone>>

NextZone == RenderGauge \/ RenderDisplay

SpecZone == InitZone /\ [][NextZone]_vars

\* ------------------------------------------------------ the gauge alone
\* The scores the parent hands the gauge, and the time between two frames.
GaugeScores == {NULL, Num(0), Num(2000), Num(4500), Num(6000)}
FrameMs == 200

SetScore ==
  /\ \E score \in GaugeScores : setScore(score)
  /\ UNCHANGED <<cartVars, op, aggVars, appVars, zoneVars>>

AnimationFrame ==
  /\ perfNow + FrameMs <= MaxFrames * FrameMs
  /\ animationFrame(perfNow + FrameMs)
  /\ UNCHANGED <<cartVars, op, aggVars, appVars, zoneVars>>

NextGauge == SetScore \/ AnimationFrame

SpecGauge == Init /\ [][NextGauge]_vars

\* ---------------------------------------------------- the App component
\* What the user types into a numeric field, what the OCR and lookup
\* services answer, and what the scorer answers for a single item.
TypedFields == {"protein"}
TypedChoices == {"2", "-1"}
OcrResponses ==
  {[protein |-> Num(3), total_fat |-> Num(1), total_carbohydrate |-> Num(2),
    dietary_fiber |-> Num(0), total_sugars |-> Num(1), servings |-> Num(2)],
   [protein |-> Num(-2), total_fat |-> Num(1), total_carbohydrate |-> Num(2),
    dietary_fiber |-> Num(0), total_sugars |-> Num(1), servings |-> NULL],
   [protein |-> Num(1), total_fat |-> Num(1), total_carbohydrate |-> Num(2),
    dietary_fiber |-> Num(0), total_sugars |-> Num(1), servings |-> Num(-1)]}
LookupResponses ==
  {[protein |-> Num(1), fat |-> Num(0), total_carbs |-> Num(4),
    fiber |-> Num(2), sugar |-> Num(3)]}
ItemSpikeChoices == {Num(12)}
AppThrownChoices == {[kind |-> "Error", message |-> "Failed to fetch"]}

HandleChange ==
  (\E name \in TypedFields, value \in TypedChoices : handleChange(name, value))
  /\ UNCHANGED <<aggVars, viewVars, singleItemAnchorKey>>
  /\ fetchIndividualBalancedMacros
HandleChangeItemName ==
  /\ ~isSubmittingItem /\ ~isLookingUp
  /\ formData.itemName = Str("")
  /\ formData' = [formData EXCEPT !.itemName = Str("apple")]
  /\ op' = Op("handleChange", 0, 0)
  /\ UNCHANGED <<cartVars, aggVars, viewVars, balVars, singleItemAnchorKey,
                 ocrResultData, isSubmittingItem, isCalculatingItem,
                 isLookingUp, isProcessingOcr, individualItemScore,
                 calculationItemError, submissionError, lookupError, ocrError,
                 appTasks, settledScore>>
HandleSubmit ==
  /\ handleSubmit
  /\ UNCHANGED <<aggVars, viewVars, singleItemAnchorKey>>
  /\ fetchIndividualBalancedMacros
SubmitResolved ==
  (\E t \in appTasks, s \in ItemSpikeChoices, e \in AppThrownChoices :
     submitSettled(t, TRUE, s, e))
  /\ UNCHANGED <<aggVars, viewVars, singleItemAnchorKey>>
  /\ fetchIndividualBalancedMacros
SubmitRejected ==
  (\E t \in appTasks, s \in ItemSpikeChoices, e \in AppThrownChoices :
     submitSettled(t, FALSE, s, e))
  /\ UNCHANGED <<aggVars, viewVars, singleItemAnchorKey>>
  /\ fetchIndividualBalancedMacros
ProcessCapturedImage ==
  /\ processCapturedImage
  /\ UNCHANGED <<aggVars, viewVars, singleItemAnchorKey>>
  /\ fetchIndividualBalancedMacros
OcrResolved ==
  (\E t \in appTasks, d \in OcrResponses : ocrResolved(t, d))
  /\ UNCHANGED <<aggVars, viewVars, singleItemAnchorKey>>
  /\ fetchIndividualBalancedMacros
OcrRejected ==
  (\E t \in appTasks, e \in AppThrownChoices : ocrRejected(t, e))
  /\ UNCHANGED <<aggVars, viewVars, singleItemAnchorKey>>
  /\ fetchIndividualBalancedMacros
HandleAutoFillRequest ==
  /\ handleAutoFillRequest
  /\ UNCHANGED <<aggVars, viewVars, singleItemAnchorKey>>
  /\ fetchIndividualBalancedMacros
LookupResolved ==
  (\E t \in appTasks, d \in LookupResponses : lookupResolved(t, d))
  /\ UNCHANGED <<aggVars, viewVars, singleItemAnchorKey>>
  /\ fetchIndividualBalancedMacros
LookupRejected ==
  (\E t \in appTasks, e \in AppThrownChoices : lookupRejected(t, e))
  /\ UNCHANGED <<aggVars, viewVars, singleItemAnchorKey>>
  /\ fetchIndividualBalancedMacros
LookupScoreResolved ==
  (\E t \in appTasks, s \in ItemSpikeChoices, e \in AppThrownChoices :
     lookupScoreSettled(t, TRUE, s, e))
  /\ UNCHANGED <<aggVars, viewVars, singleItemAnchorKey>>
  /\ fetchIndividualBalancedMacros
LookupScoreRejected ==
  (\E t \in appTasks, s \in ItemSpikeChoices, e \in AppThrownChoices :
     lookupScoreSettled(t, FALSE, s, e))
  /\ UNCHANGED <<aggVars, viewVars, singleItemAnchorKey>>
  /\ fetchIndividualBalancedMacros

\* The anchors the single-item Select offers here, and what the scorer
\* answers to a balancing request: balanced macros for that request, or none.
SingleAnchorChoices == {"protein", "TotalCarbs"}
BalancedFor(r) == [kind |-> "balanced", seq |-> r.seq, anchor_id |-> r.anchor_id]
SetSingleItemAnchorKey ==
  (\E k \in SingleAnchorChoices : setSingleItemAnchorKey(k)) /\ UNCHANGED <<aggVars, viewVars>>
BalancedResolved ==
  (\E r \in balInflight : \E b \in {BalancedFor(r), NULL} : balancedResolved(r, b))
  /\ UNCHANGED <<aggVars, viewVars>>
BalancedRejected ==
  (\E r \in balInflight : balancedRejected(r)) /\ UNCHANGED <<aggVars, viewVars>>

\* Here the scorer answers a balancing request before anything else happens.
BalanceIdle == balInflight = {}

NextApp ==
  \/ BalanceIdle /\ HandleChange
  \/ BalanceIdle /\ HandleChangeItemName
  \/ BalanceIdle /\ HandleSubmit
  \/ BalanceIdle /\ SubmitResolved
  \/ BalanceIdle /\ SubmitRejected
  \/ BalanceIdle /\ ProcessCapturedImage
  \/ BalanceIdle /\ OcrResolved
  \/ BalanceIdle /\ OcrRejected
  \/ BalanceIdle /\ HandleAutoFillRequest
  \/ BalanceIdle /\ LookupResolved
  \/ BalanceIdle /\ LookupRejected
  \/ BalanceIdle /\ LookupScoreResolved
  \/ BalanceIdle /\ LookupScoreRejected
  \/ BalancedResolved
  \/ BalancedRejected

\* The page: the form, the acquisition flows and the cart they feed.
SpecApp == Init /\ [][NextApp]_vars

NextBal ==
  \/ HandleChangeItemName
  \/ HandleAutoFillRequest
  \/ LookupResolved
  \/ LookupRejected
  \/ LookupScoreResolved
  \/ LookupScoreRejected
  \/ SetSingleItemAnchorKey
  \/ BalancedResolved
  \/ BalancedRejected

\* The single-item graph: a looked-up draft, its score, the anchor Select
\* and the balancing requests the effect sends.
SpecBal == Init /\ [][NextBal]_vars

\* One item after another: scan, edit, submit, and submit again.
HandleSubmitAgain ==
  /\ handleSubmitWithin(MaxItems)
  /\ UNCHANGED <<aggVars, viewVars, singleItemAnchorKey>>
  /\ fetchIndividualBalancedMacros

NextServings ==
  \/ ProcessCapturedImage
  \/ OcrResolved
  \/ HandleChange
  \/ HandleSubmitAgain
  \/ SubmitResolved
  \/ BalancedResolved

SpecServings == Init /\ [][NextServings]_vars

\* Lookups started by voice.
Transcripts == {"apple"}
Onresult ==
  (\E currentTranscript \in Transcripts : onresult(currentTranscript))
  /\ UNCHANGED <<aggVars, viewVars, singleItemAnchorKey>>
  /\ fetchIndividualBalancedMacros

NextVoice ==
  \/ Onresult
  \/ LookupResolved
  \/ LookupRejected
  \/ LookupScoreResolved
  \/ LookupScoreRejected
  \/ BalancedResolved

SpecVoice == Init /\ [][NextVoice]_vars

\* =================================================================== claims

\* C1 (as claimed): cart scoring is last-trigger-wins: a response to a
\* superseded request never overwrites the totals produced by a request that
\* was triggered after it.
C1_LastTriggerWins ==
  [][(cartTotals.kind = "totals" /\ cartTotals'.kind = "totals")
       => cartTotals'.seq >= cartTotals.seq]_vars

C3_EmptyCartHasNoTotals == (items = <<>>) => (cartTotals = NULL)

\* C4: removeItem(id) removes exactly the items whose id is id and keeps the
\* others unchanged and in order; an empty result sets cartTotals to null and
\* sends no request, a non-empty result sends exactly one scoring request for
\* the remaining items.
C4_Remaining(id) == SelectSeq(items, LAMBDA it : it.id # id)

C4_RemoveItem ==
  [][(op'.name = "removeItem") =>
       /\ items' = C4_Remaining(op'.arg)
       /\ (items' = <<>>) =>
            (cartTotals' = NULL /\ cartInflight' = cartInflight /\ issued' = issued)
       /\ (items' # <<>>) =>
            /\ issued' = issued + 1
            /\ cartInflight \subseteq cartInflight'
            /\ Cardinality(cartInflight' \ cartInflight) = 1
            /\ \A r \in cartInflight' \ cartInflight : r.itemCount = Len(items')]_vars

\* removeItem took items out of a cart and left others behind.
C4_Witness ==
  /\ op.name = "removeItem"
  /\ 0 < Len(items) /\ Len(items) < op.len
  /\ \A i \in 1..Len(items) : items[i].id # op.arg

\* C5 (as claimed): the ids of the items in the cart are pairwise distinct.
C5_IdsDistinct ==
  \A i, j \in 1..Len(items) : (i # j) => (items[i].id # items[j].id)

\* The aggregate the claim describes: quantity a pure multiplier (a quantity
\* never set counts as 1, a quantity of 0 contributes 0).
C6_Quantity(item) == IF item.quantity.kind = "num" THEN item.quantity.n ELSE 1

RECURSIVE C6_Sum(_, _)
C6_Sum(its, acc) ==
  IF its = <<>> THEN acc
  ELSE C6_Sum(Tail(its),
              [f \in Fields |->
                 FAdd(acc[f], FMul(Head(its).macros[f], C6_Quantity(Head(its))))])

\* C6 (as claimed): every cart scoring request carries, per field, the sum
\* over the cart's items of value x quantity, for every quantity >= 0.
C6_AggregateIsWeightedSum ==
  [][(issued' = issued + 1) =>
       \A r \in cartInflight' \ cartInflight :
          r.aggregated_input_data = C6_Sum(items', ZeroMacros)]_vars

\* No product and no partial sum of the reduce over its is rounded.
RECURSIVE C7_NoRounding(_, _)
C7_NoRounding(its, acc) ==
  \/ its = <<>>
  \/ LET q == OrElse(Head(its).quantity, 1)
         term == [f \in Fields |-> Head(its).macros[f] * q]
         sum == [f \in Fields |-> acc[f] + term[f]]
     IN /\ \A f \in Fields : FRound(term[f]) = term[f] /\ FRound(sum[f]) = sum[f]
        /\ C7_NoRounding(Tail(its), sum)

\* C7 (as claimed): aggregating any permutation of the item list yields the
\* same five-field vector.
C7_OrderIndependent ==
  (aggOut.kind = "vec") => (aggOut.v = aggregated(aggList))

\* C7 (amended): the aggregate of an unchanged list is always the same, and
\* the aggregate of a permutation is the same whenever no product or partial
\* sum is rounded in either order.
C7_OrderIndependentWhenExact ==
  (aggOut.kind = "vec") =>
    /\ (aggOut.list = aggList) => (aggOut.v = aggregated(aggList))
    /\ (C7_NoRounding(aggOut.list, ZeroMacros) /\ C7_NoRounding(aggList, ZeroMacros))
         => (aggOut.v = aggregated(aggList))

\* A three-item list was aggregated, then reordered, and nothing rounds.
C7_Witness ==
  /\ aggOut.kind = "vec"
  /\ Len(aggList) = 3
  /\ aggOut.list # aggList
  /\ aggList[1] # aggList[3]
  /\ C7_NoRounding(aggOut.list, ZeroMacros) /\ C7_NoRounding(aggList, ZeroMacros)

\* C8: updateItemQuantity(id, q) gives the items with that id the quantity
\* max(0, q), changes nothing else in them, changes no other item, keeps the
\* number and order of items, and runs calculateTotals once (the error is
\* cleared and one request for the updated list is sent).
C8_UpdateItemQuantity ==
  [][(op'.name = "updateItemQuantity") =>
       /\ Len(items') = Len(items)
       /\ \A i \in 1..Len(items) :
            IF items[i].id = op'.arg
              THEN /\ items'[i].quantity = Num(IF op'.q < 0 THEN 0 ELSE op'.q)
                   /\ items'[i].id = items[i].id
                   /\ items'[i].name = items[i].name
                   /\ items'[i].macros = items[i].macros
              ELSE items'[i] = items[i]
       /\ error' = NULL
       /\ (items # <<>>) =>
            /\ issued' = issued + 1
            /\ Cardinality(cartInflight' \ cartInflight) = 1
            /\ cartTotals' = cartTotals]_vars

\* A negative quantity was given for an item of a cart holding other items.
C8_Witness ==
  /\ op.name = "updateItemQuantity"
  /\ op.q < 0
  /\ \E i, j \in 1..Len(items) :
       /\ items[i].id = op.arg /\ items[i].quantity = Num(0)
       /\ items[j].id # op.arg

\* C9: every item stored in the cart has all five nutrient fields >= 0,
\* whatever the form submissions, OCR results and lookups were: the form
\* submits only non-negative numbers and the serving multiplier is > 0.
C9_CartMacrosNonNegative ==
  \A i \in 1..Len(items) : \A f \in Fields : items[i].macros[f] >= 0

\* C9 witness: the cart holds an item scaled by two servings (3 g x 2) and a
\* submission of a scanned label with a negative protein value was refused.
C9_Witness ==
  /\ op.name = "handleSubmit.invalid"
  /\ formData.protein = Str("-2")
  /\ \E i \in 1..Len(items) : items[i].macros.protein = 6

\* C10: when a single-item scoring call fails, the displayed score still
\* equals the previously settled score (null only when there was none) and
\* calculationItemError is raised.
C10_FailureKeepsPreviousScore ==
  op.name = "scoreRejected" =>
    /\ calculationItemError # NULL
    /\ individualItemScore = settledScore

\* C11: single-item balancing is last-trigger-wins: once every balancing
\* response has been delivered, the balanced macros on display are the
\* answer to the request issued last, whichever answer arrived first.
C11_BalancingLastTriggerWins ==
  (balInflight = {} /\ op.name = "balancedResolved" /\ individualBalancedMacros # NULL)
    => individualBalancedMacros.seq = balIssued

\* C12: the three busy states are mutually exclusive: at most one of
\* isProcessingOcr, isLookingUp and isSubmittingItem is true.
C12_BusyStatesExclusive ==
  /\ ~(isProcessingOcr /\ isLookingUp)
  /\ ~(isProcessingOcr /\ isSubmittingItem)
  /\ ~(isLookingUp /\ isSubmittingItem)

\* C13: a failed acquisition flow leaves the draft unchanged: when
\* processCapturedImage or handleAutoFillRequest fails, ocrResultData equals
\* the draft as it was just before the flow started (kept in the suspended
\* handler's `before`), and the flow's own error is set.
C13_FailedFlowKeepsDraft ==
  [][\A t \in appTasks \ appTasks' :
       /\ (op'.name = "ocrRejected" /\ t.fn = "processCapturedImage")
            => (ocrResultData' = t.before /\ ocrError' # NULL)
       /\ (op'.name = "lookupRejected" /\ t.fn = "handleAutoFillRequest")
            => (ocrResultData' = t.before /\ lookupError' # NULL)]_vars

\* C14: every successful draft population by an acquisition flow (OCR
\* capture, AI lookup) issues, in the same step and without user action, a
\* single-item scoring request for the draft's vector.
C14_PopulationTriggersScoring ==
  [][op'.name \in {"ocrResolved", "lookupResolved"} =>
       \E t \in appTasks' \ appTasks :
         /\ t.fn \in {"processCapturedImage.score", "handleAutoFillRequest.score"}
         /\ t.request.aggregated_input_data = IndividualMacros(ocrResultData')]_vars

\* C15: every scoring request (cart-level, single-item, single-item
\* balancing) carries an anchor_id in lower-cased snake_case, one of protein,
\* fat, fiber, sugar, total_carbs; "TotalCarbs" is sent as total_carbs.
C15_WireAnchors == {"protein", "fat", "fiber", "sugar", "total_carbs"}
C15_AnchorIdIsSnakeCase ==
  /\ \A r \in cartInflight : r.anchor_id \in C15_WireAnchors
  /\ \A r \in balInflight : r.anchor_id \in C15_WireAnchors
  /\ \A t \in appTasks :
       "request" \in DOMAIN t => t.request.anchor_id \in C15_WireAnchors

\* C16: the two anchors are used each for its own target: a single-item
\* scoring request carries the single-item anchor selected when it is sent,
\* a cart-level request carries the cart anchor.
C16_AnchorsIndependent ==
  [][/\ \A t \in appTasks' \ appTasks :
          "request" \in DOMAIN t =>
            t.request.anchor_id \in
              {singleItemAnchorKey', mapAnchorKeyToApiValue(singleItemAnchorKey')}
     /\ \A r \in cartInflight' \ cartInflight :
          r.anchor_id \in {anchorKey', mapAnchorKeyToApiValue(anchorKey')}]_vars

\* C17: for a scanned item the form shows the per-serving values OCR
\* returned, unscaled, and the vector added to the cart is each of them
\* multiplied by the returned serving count, taken as 1 when it is absent,
\* null or <= 0.
C17_OcrField(k) ==
  CASE k = "protein" -> "protein"
    [] k = "fat" -> "total_fat"
    [] k = "totalCarbs" -> "total_carbohydrate"
    [] k = "fiber" -> "dietary_fiber"
    [] k = "sugar" -> "total_sugars"
C17_Count(servings) ==
  IF servings.kind = "num" /\ servings.n > 0 THEN servings.n ELSE 1
C17_Scanned == {d \in OcrResponses : formData = FormFrom(MappedData(d))}
C17_ScannedItemScaledByServings ==
  [][/\ op'.name = "ocrResolved" =>
          \E d \in OcrResponses :
            /\ \A k \in FormKeys : formData'[k] = Str(ToString(d[C17_OcrField(k)].n))
            /\ ocrResultData'.servings = d.servings
     /\ \A t \in appTasks' \ appTasks :
          (t.fn = "handleAnalyzeAndAddToCart" /\ ocrResultData # NULL) =>
            \A d \in C17_Scanned :
              ocrResultData.servings = d.servings =>
                \A k \in FormKeys :
                  t.cartItem.macros[IF k = "totalCarbs" THEN "total_carbs" ELSE k]
                    = FMul(d[C17_OcrField(k)].n, C17_Count(d.servings))
     /\ \A t \in appTasks \ appTasks' :
          t.fn = "handleAnalyzeAndAddToCart" =>
            /\ Len(items') = Len(items) + 1
            /\ items'[Len(items')].macros = t.cartItem.macros]_vars

\* C17 witness: a label scanned with two servings was submitted as scanned
\* and its item (3 g of protein per serving) is in the cart with 6 g.
C17_Witness ==
  /\ op.name \in {"scoreResolved", "scoreRejected"}
  /\ ocrResultData # NULL
  /\ ocrResultData.itemName = Str("Scanned Item")
  /\ ocrResultData.servings = Num(2)
  /\ formData.protein = Str("3")
  /\ \E i \in 1..Len(items) : items[i].macros.protein = 6

\* C18: every score in [0, 50] is classified as exactly one of the four
\* tiers, never as unavailable, by the gauge and by the cart display; 14.9
\* is Low, 15.0 and 24.9 Caution, 25.0 and 34.9 Dangerous, 35.0 Red Zone.
C18_Tiers == {Zone("Low"), Zone("Caution"), Zone("Dangerous"), Zone("Red Zone")}
C18_Boundary(n) ==
  CASE n = 1490 -> Zone("Low")
    [] n \in {1500, 2490} -> Zone("Caution")
    [] n \in {2500, 3490} -> Zone("Dangerous")
    [] n = 3500 -> Zone("Red Zone")
C18_EveryScoreHasATier ==
  (zoneScore # NULL /\ zoneScore.n >= 0 /\ zoneScore.n <= 5000) =>
    /\ gaugeZone # NotRendered => gaugeZone \in C18_Tiers
    /\ displayZone # NotRendered => displayZone \in C18_Tiers
    /\ zoneScore.n \in {1490, 1500, 2490, 2500, 3490, 3500} =>
         /\ gaugeZone # NotRendered => gaugeZone = C18_Boundary(zoneScore.n)
         /\ displayZone # NotRendered => displayZone = C18_Boundary(zoneScore.n)

\* C19: outside [0, 50] each classifier rejects downward and saturates
\* upward: no score and a score below 0 are unavailable, a score above 50 is
\* Red Zone.
C19_Unavailable == {NULL, Zone("N/A")}
C19_SaturateAndReject ==
  /\ (zoneScore = NULL \/ zoneScore.n < 0) =>
       /\ gaugeZone # NotRendered => gaugeZone \in C19_Unavailable
       /\ displayZone # NotRendered => displayZone \in C19_Unavailable
  /\ (zoneScore # NULL /\ zoneScore.n > 5000) =>
       /\ gaugeZone # NotRendered => gaugeZone = Zone("Red Zone")
       /\ displayZone # NotRendered => displayZone = Zone("Red Zone")

\* C20: a new target abandons the running gauge animation: once every frame
\* callback has run, the needle shows the latest target clamped to [0, 50],
\* never an abandoned target.
C20_NeedleEndsAtLatestTarget ==
  (rafQueue = <<>> /\ gaugeScore # NULL) =>
    clampedScore = MathMax(0, MathMin(gaugeScore.n, 5000))

\* C21: a frame of a single gauge animation that is the only one queued and
\* runs toward the current target, at or above its start: the displayed value
\* does not decrease and does not exceed the target; at the first frame whose
\* elapsed time reaches the duration it equals the target and no further
\* frame is requested, before that the next frame is requested.
C21_Shown(a) == IF a = NULL THEN 0 ELSE MathMax(0, MathMin(a.n, 5000))
C21_SingleAnimationFrame ==
  [][(/\ Len(rafQueue) = 1
      /\ perfNow' # perfNow
      /\ gaugeScore # NULL
      /\ rafQueue[1].targetValue = C21_Shown(gaugeScore)
      /\ rafQueue[1].diff >= 0)
     => LET a == rafQueue[1]
        IN /\ C21_Shown(animatedScore') >= C21_Shown(animatedScore)
           /\ C21_Shown(animatedScore') <= a.targetValue
           /\ (perfNow' - a.startTime >= a.duration) =>
                 (animatedScore' = Num(a.targetValue) /\ rafQueue' = <<>>)
           /\ (perfNow' - a.startTime < a.duration) =>
                 rafQueue' = <<a>>]_vars

\* a single animation from 0 to 20 has shown an intermediate value and then
\* finished at its target after 800 ms
C21_Witness ==
  /\ rafQueue = <<>>
  /\ gaugeScore = Num(2000)
  /\ animatedScore = Num(2000)
  /\ perfNow = 800

\* C22: the animation a score change starts lasts
\* min(|target - displayed| x 40 ms, 800 ms), where target is the new score
\* clamped to [0, 50] and displayed is the value the needle shows when the
\* score changes.
C22_DurationFromDisplayed ==
  [][(Len(rafQueue') = Len(rafQueue) + 1)
     => LET a == rafQueue'[Len(rafQueue')]
            distance == Abs(C21_Shown(gaugeScore') - C21_Shown(animatedScore))
        IN /\ a.duration <= 800
           /\ a.duration = MathMin((distance * 40) \div 100, 800)]_vars

\* C23: the first score a gauge that has had no score receives is shown in
\* the same update: the needle value is that score (within [0, 50]) and no
\* frame callback is requested.
C23_FirstScoreShownAtOnce ==
  [][(isInitialRender /\ gaugeScore' # gaugeScore /\ gaugeScore' # NULL)
     => /\ animatedScore' = gaugeScore'
        /\ clampedScore' = C21_Shown(gaugeScore')
        /\ rafQueue' = <<>>
        /\ perfNow' = perfNow]_vars

\* the first score, 20, is on the needle before any frame has run
C23_Witness ==
  /\ gaugeScore = Num(2000)
  /\ animatedScore = Num(2000)
  /\ ~isInitialRender
  /\ rafQueue = <<>>
  /\ perfNow = 0

\* C24: in every rendered state the value the needle angle is computed from
\* and the value that is classified lie in [0, 50], and the ACV value is 0.75
\* times the needle's value.
C24_PrimaryClampedBeforeUse ==
  /\ clampedScore \in 0..5000
  /\ acvScore = 75 * clampedScore
  /\ classifiedScore # NULL => classifiedScore.n \in 0..5000

\* C26: an animation started by a score change starts from the value the
\* needle shows at that moment, and a reset of the score to null keeps the
\* displayed value, so that the animation for the score that follows starts
\* from the value displayed before the reset and not from 0.
C26_RestartsFromDisplayed ==
  [][/\ (Len(rafQueue') = Len(rafQueue) + 1) =>
          C21_Shown(Num(rafQueue'[Len(rafQueue')].startValue)) = clampedScore
     /\ (gaugeScore # NULL /\ gaugeScore' = NULL) =>
          clampedScore' = clampedScore]_vars

\* C25: once a failed OCR, lookup or scoring call has settled, the busy flags
\* of its flow are false again, and with no call left in flight every busy
\* flag is false, so every flow can be started.
C25_NoBusyFlagStuck ==
  /\ op.name = "ocrRejected" => ~isProcessingOcr
  /\ op.name = "lookupRejected" => ~isLookingUp
  /\ op.name = "scoreRejected" =>
       ~isCalculatingItem /\ ~isSubmittingItem /\ ~isLookingUp
  /\ appTasks = {} =>
       ~isProcessingOcr /\ ~isLookingUp /\ ~isSubmittingItem /\ ~isCalculatingItem

\* a camera capture has been started after a lookup failed
C25_Witness ==
  /\ op.name = "processCapturedImage"
  /\ lookupError # NULL
  /\ isProcessingOcr

\* C27: a submission adds its item exactly once: not when it starts, not
\* while its scoring call is in flight, and once when that call settles,
\* whether it succeeded or failed; isSubmittingItem is true from the start of
\* the submission until the add and false after it.
C27_Submissions(tasks) == {t \in tasks : t.fn = "handleAnalyzeAndAddToCart"}
C27_AddedOnceAfterScoring ==
  [][/\ C27_Submissions(appTasks) # {} => isSubmittingItem
     /\ C27_Submissions(appTasks') = C27_Submissions(appTasks) => items' = items
     /\ C27_Submissions(appTasks') \ C27_Submissions(appTasks) # {} =>
          items' = items /\ isSubmittingItem'
     /\ \A t \in C27_Submissions(appTasks) \ C27_Submissions(appTasks') :
          /\ Len(items') = Len(items) + 1
          /\ SubSeq(items', 1, Len(items)) = items
          /\ items'[Len(items')].name = t.cartItem.name
          /\ items'[Len(items')].macros = t.cartItem.macros
          /\ ~isSubmittingItem'
          /\ ~isCalculatingItem']_vars

\* the item of a submission whose scoring call failed is in the cart
C27_Witness ==
  /\ op.name = "scoreRejected"
  /\ Len(items) = 1
  /\ calculationItemError # NULL
  /\ ~isSubmittingItem

\* C30: an item typed in after an earlier submission, with no OCR or lookup
\* started since (the draft is the one that submission left, whose fields
\* are numbers, and the form has been edited), is added with multiplier 1:
\* the macros of its cart item are the submitted macros.
C30_LeftBySubmission ==
  /\ ocrResultData # NULL
  /\ ocrResultData.protein.kind # "str"
C30_ManualItemNotMultiplied ==
  [][(/\ op'.name = "handleAnalyzeAndAddToCart"
      /\ C30_LeftBySubmission
      /\ formData # FormFrom(ocrResultData))
     => \A t \in appTasks' \ appTasks :
          t.cartItem.macros = IndividualMacros(SubmittedData(formData))]_vars

\* C28: isLookingUp is true in every state in which a lookup request started
\* by handleAutoFillRequest is in flight, however the lookup was started.
C28_LookingUpWhileInFlight ==
  (\E t \in appTasks : t.fn = "handleAutoFillRequest") => isLookingUp

\* C29: the cart's error follows the latest-issued scoring request: when that
\* request has just settled and none is in flight, error is set if and only
\* if it failed; and the failure of a superseded request does not leave error
\* set next to totals produced by a later request.
C29_ErrorFollowsLatestRequest ==
  /\ (cartInflight = {} /\ op.name = "resolved" /\ op.arg = issued) => error = NULL
  /\ (cartInflight = {} /\ op.name = "rejected" /\ op.arg = issued) => error # NULL
  /\ (op.name = "rejected" /\ cartTotals.kind = "totals" /\ cartTotals.seq > op.arg)
       => error = NULL

====
